---- MODULE Spec2Model ----
(***************************************************************************)
(* A model of the depth-chart pipeline of src/main.py: the name            *)
(* normalizer (_normalize_player, _smart_title), the roster section parser *)
(* (parse_team_offense), the renderer helpers (format_kickoff,             *)
(* _bold_lines, render_game_html), the file-name sanitizer (safe_slug) and *)
(* the batch writer (write_txt_templates_with_depth).                      *)
(*                                                                         *)
(* Text is modelled as a sequence of one-character strings, so that        *)
(* str.lower, str.title, str.split, str.strip and the regular expressions  *)
(* of the source are computed character by character.                      *)
(***************************************************************************)
EXTENDS Integers, Sequences, FiniteSets, TLC

(***************************************************************************)
(* Characters and the str methods the source uses                          *)
(***************************************************************************)
LowerLetters ==
    <<"a","b","c","d","e","f","g","h","i","j","k","l","m",
      "n","o","p","q","r","s","t","u","v","w","x","y","z">>

UpperLetters ==
    <<"A","B","C","D","E","F","G","H","I","J","K","L","M",
      "N","O","P","Q","R","S","T","U","V","W","X","Y","Z">>

DigitChars == {"0","1","2","3","4","5","6","7","8","9"}

\* the non-breaking space "\xa0"
NBSP == "nbsp"

\* the lower-case letter of each upper-case letter, and back
LowerOf == [c \in {UpperLetters[i] : i \in 1..26} |->
               LowerLetters[CHOOSE i \in 1..26 : UpperLetters[i] = c]]

UpperOf == [c \in {LowerLetters[i] : i \in 1..26} |->
               UpperLetters[CHOOSE i \in 1..26 : LowerLetters[i] = c]]

IsLower(c) == c \in DOMAIN UpperOf

IsUpper(c) == c \in DOMAIN LowerOf

\* str.isdigit on one character
IsDigit(c) == c \in DigitChars

\* a cased character, as str.title sees it
IsCased(c) == IsLower(c) \/ IsUpper(c)

\* \w of the re module
IsWord(c) == IsCased(c) \/ IsDigit(c) \/ c = "_"

\* a character str.strip and str.split treat as whitespace
IsSpace(c) == c \in {" ", NBSP}

ToLower(c) == IF IsUpper(c) THEN LowerOf[c] ELSE c

ToUpper(c) == IF IsLower(c) THEN UpperOf[c] ELSE c

\* str.lower
Lower(s) == [i \in 1..Len(s) |-> ToLower(s[i])]

\* str.title: a cased character is upper-cased when the character before it
\* is not cased, lower-cased otherwise
Title(s) ==
    [i \in 1..Len(s) |->
        IF IsCased(s[i])
        THEN IF i > 1 /\ IsCased(s[i-1]) THEN ToLower(s[i]) ELSE ToUpper(s[i])
        ELSE s[i]]

RECURSIVE LStrip(_)
LStrip(s) ==
    IF s # <<>> /\ IsSpace(Head(s)) THEN LStrip(Tail(s)) ELSE s

RECURSIVE RStrip(_)
RStrip(s) ==
    IF s # <<>> /\ IsSpace(s[Len(s)])
    THEN RStrip(SubSeq(s, 1, Len(s) - 1))
    ELSE s

\* str.strip()
Strip(s) == RStrip(LStrip(s))

RECURSIVE SplitAcc(_,_,_,_)
SplitAcc(s, i, cur, acc) ==
    IF i > Len(s)
    THEN IF cur = <<>> THEN acc ELSE Append(acc, cur)
    ELSE IF IsSpace(s[i])
         THEN SplitAcc(s, i + 1, <<>>, IF cur = <<>> THEN acc ELSE Append(acc, cur))
         ELSE SplitAcc(s, i + 1, Append(cur, s[i]), acc)

\* str.split(): the maximal runs of non-whitespace characters
Split(s) == SplitAcc(s, 1, <<>>, <<>>)

RECURSIVE Join(_,_)
\* sep.join(toks)
Join(toks, sep) ==
    IF toks = <<>> THEN <<>>
    ELSE IF Len(toks) = 1 THEN toks[1]
    ELSE toks[1] \o sep \o Join(Tail(toks), sep)

\* s.startswith(p)
StartsWith(s, p) == Len(s) >= Len(p) /\ SubSeq(s, 1, Len(p)) = p

\* sub in s
Contains(s, sub) ==
    \E i \in 0..(Len(s) - Len(sub)) : SubSeq(s, i + 1, i + Len(sub)) = sub

(***************************************************************************)
(* _smart_title (src/main.py 189-198)                                      *)
(***************************************************************************)
\* re.sub(r"\b<pre>([a-z])", pre + upper(group 1), t): the prefix starts
\* with a word character, so \b holds exactly when no word character
\* precedes it.  A match holds no capital letter after its first character,
\* so no two matches overlap and each can be rewritten in place.
FixPrefix(t, pre) ==
    [j \in 1..Len(t) |->
        LET start == j - Len(pre) IN
        IF /\ start >= 1
           /\ SubSeq(t, start, j - 1) = pre
           /\ IsLower(t[j])
           /\ (start = 1 \/ ~IsWord(t[start - 1]))
        THEN ToUpper(t[j])
        ELSE t[j]]

smart_title(s) ==
    LET t == Strip(s) IN
    IF t = <<>> THEN t
    ELSE FixPrefix(FixPrefix(FixPrefix(Title(t), <<"M","c">>),
                             <<"M","a","c">>),
                   <<"O","'">>)

(***************************************************************************)
(* _normalize_player (src/main.py 200-226)                                 *)
(***************************************************************************)
\* raw.replace("\xa0", " ")
ReplaceNbsp(s) == [i \in 1..Len(s) |-> IF s[i] = NBSP THEN " " ELSE s[i]]

\* the test that ends the token loop (line 212)
StopToken(tok) ==
    \/ \E i \in 1..Len(tok) : IsDigit(tok[i])
    \/ \E i \in 1..Len(tok) : tok[i] = "/"
    \/ tok[Len(tok)] = "^"

RECURSIVE KeepFilter(_)
\* the loop with `continue` in place of `break`
KeepFilter(toks) ==
    IF toks = <<>> THEN <<>>
    ELSE IF StopToken(Head(toks)) THEN KeepFilter(Tail(toks))
    ELSE <<Head(toks)>> \o KeepFilter(Tail(toks))

RECURSIVE KeepTokens(_)
\* the loop of lines 210-214: append until the first stop token, then break
KeepTokens(toks) ==
    IF toks = <<>> THEN <<>>
    ELSE IF StopToken(Head(toks)) THEN <<>>
    ELSE <<Head(toks)>> \o KeepTokens(Tail(toks))

\* lines 215-217: the kept tokens joined, or the trimmed input
KeptText(s) ==
    LET s2 == Strip(Join(KeepTokens(Split(s)), <<" ">>)) IN
    IF s2 = <<>> THEN s ELSE s2

HasComma(s) == \E i \in 1..Len(s) : s[i] = ","

FirstComma(s) == CHOOSE i \in 1..Len(s) : s[i] = "," /\ \A j \in 1..(i-1) : s[j] # ","

\* a reordering that also splits a comma-less name at its first space
ReorderOnSpace(s2) ==
    IF HasComma(s2)
    THEN LET k == FirstComma(s2) IN
         Strip(SubSeq(s2, k + 1, Len(s2))) \o <<" ">> \o Strip(SubSeq(s2, 1, k - 1))
    ELSE IF \E i \in 1..Len(s2) : s2[i] = " "
    THEN LET k == CHOOSE i \in 1..Len(s2) : s2[i] = " " /\ \A j \in 1..(i-1) : s2[j] # " " IN
         Strip(SubSeq(s2, k + 1, Len(s2))) \o <<" ">> \o Strip(SubSeq(s2, 1, k - 1))
    ELSE s2

\* lines 219-223: "Last, First Middle" -> "First Middle Last"
ReorderName(s2) ==
    IF HasComma(s2)
    THEN LET k == FirstComma(s2) IN
         Strip(SubSeq(s2, k + 1, Len(s2))) \o <<" ">> \o Strip(SubSeq(s2, 1, k - 1))
    ELSE s2

RECURSIVE Collapse(_,_)
\* re.sub(r"\s+", " ", name): inrun says the previous character was whitespace
Collapse(s, inrun) ==
    IF s = <<>> THEN <<>>
    ELSE IF IsSpace(Head(s))
         THEN (IF inrun THEN <<>> ELSE <<" ">>) \o Collapse(Tail(s), TRUE)
         ELSE <<Head(s)>> \o Collapse(Tail(s), FALSE)

\* line 225
Squeeze(name) == Strip(Collapse(name, FALSE))

normalize_player(raw) ==
    LET s == Strip(ReplaceNbsp(raw)) IN
    IF s = <<>> THEN <<>>
    ELSE smart_title(Squeeze(ReorderName(KeptText(s))))

(***************************************************************************)
(* parse_team_offense (src/main.py 228-296)                                *)
(*                                                                         *)
(* The roster document is the list of its sibling rows in document order.  *)
(* A row records what the function reads of a <tr>: hdr, the text of the   *)
(* cell select_one("td.dt-sh") finds (None when there is none); ncells,    *)
(* len(tr.find_all("td")); pos, the text of tds[1]; anchors, the texts of  *)
(* tr.select("a").                                                         *)
(***************************************************************************)
\* Python's None
None == <<"None">>

\* bool(x) of a str or None
Truthy(x) == x # None /\ x # <<>>

TrRow(hdr, ncells, pos, anchors) ==
    [hdr |-> hdr, ncells |-> ncells, pos |-> pos, anchors |-> anchors]

\* get_text(" ", strip=True) and get_text(strip=True) of a cell with one text node
CellText(cell) == Strip(cell)

OffensePrefix == <<"o","f","f","e","n","s","e"," ","-"," ">>

\* the condition of line 239
IsOffenseHeaderFor(txt, team) ==
    /\ StartsWith(Lower(txt), OffensePrefix)
    /\ Contains(Lower(txt), Lower(team))

\* lines 236-243: the row of the first matching header cell, 0 when none matches
FindOffenseRow(soup, team) ==
    LET hits == {i \in 1..Len(soup) :
                    /\ soup[i].hdr # None
                    /\ IsOffenseHeaderFor(CellText(soup[i].hdr), team)}
    IN IF hits = {} THEN 0 ELSE CHOOSE i \in hits : \A j \in hits : i <= j

\* the prefixes of lines 259-260
StopPrefixes ==
    << <<"d","e","f","e","n","s","e"," ","-">>,
       <<"s","p","e","c","i","a","l"," ","t","e","a","m","s"," ","-">>,
       <<"p","r","a","c","t","i","c","e"," ","s","q","u","a","d"," ","-">>,
       <<"r","e","s","e","r","v","e","s"," ","-">>,
       <<"o","f","f","e","n","s","e"," ","-">> >>

\* the same test without .lower()
IsStopHeaderCaseSensitive(txt) ==
    \E k \in 1..Len(StopPrefixes) : StartsWith(txt, StopPrefixes[k])

\* lines 258-260, on the stripped text of the header cell
IsStopHeader(txt) ==
    LET hdr_txt == Lower(txt)
    IN \E k \in 1..Len(StopPrefixes) : StartsWith(hdr_txt, StopPrefixes[k])

\* lines 255-261: the row ends the scan
IsStopRow(row) == row.hdr # None /\ IsStopHeader(CellText(row.hdr))

\* lines 269-270: the anchors with text, normalized, empties dropped
Players(row) ==
    LET texts == SelectSeq(row.anchors, LAMBDA a : Strip(a) # <<>>)
        names == [i \in 1..Len(texts) |-> normalize_player(texts[i])]
    IN SelectSeq(names, LAMBDA p : p # <<>>)

\* players[:3]
First3(players) == SubSeq(players, 1, IF Len(players) < 3 THEN Len(players) ELSE 3)

PosQB == <<"Q","B">>
PosRB == <<"R","B">>
PosTE == <<"T","E">>
PosLWR == <<"L","W","R">>
PosRWR == <<"R","W","R">>
PosSWR == <<"S","W","R">>
PosWR == <<"W","R">>

\* the loop body with first-wins starters
ProcessRowFirstWins(st, row) ==
    IF row.ncells < 4 THEN st
    ELSE LET pos == CellText(row.pos)
             players == Players(row)
             starter == IF players # <<>> THEN players[1] ELSE <<>>
         IN CASE pos = PosQB -> [st EXCEPT !.result.qb = players]
              [] pos = PosRB -> [st EXCEPT !.result.rb = players]
              [] pos = PosTE -> [st EXCEPT !.result.te = players]
              [] pos = PosLWR -> IF st.lwr = None THEN [st EXCEPT !.lwr = starter] ELSE st
              [] pos = PosRWR -> IF st.rwr = None THEN [st EXCEPT !.rwr = starter] ELSE st
              [] pos = PosSWR -> IF st.swr = None THEN [st EXCEPT !.swr = starter] ELSE st
              [] pos = PosWR /\ ~(Truthy(st.lwr) \/ Truthy(st.rwr) \/ Truthy(st.swr)) ->
                    IF st.result.wr = <<>>
                    THEN [st EXCEPT !.result.wr = First3(players)]
                    ELSE st
              [] OTHER -> st

\* the loop body with the guard of line 288 dropped
ProcessRowLastWR(st, row) ==
    IF row.ncells < 4 THEN st
    ELSE LET pos == CellText(row.pos)
             players == Players(row)
             starter == IF players # <<>> THEN players[1] ELSE <<>>
         IN CASE pos = PosQB -> [st EXCEPT !.result.qb = players]
              [] pos = PosRB -> [st EXCEPT !.result.rb = players]
              [] pos = PosTE -> [st EXCEPT !.result.te = players]
              [] pos = PosLWR -> [st EXCEPT !.lwr = starter]
              [] pos = PosRWR -> [st EXCEPT !.rwr = starter]
              [] pos = PosSWR -> [st EXCEPT !.swr = starter]
              [] pos = PosWR /\ ~(Truthy(st.lwr) \/ Truthy(st.rwr) \/ Truthy(st.swr)) ->
                    [st EXCEPT !.result.wr = First3(players)]
              [] OTHER -> st

\* lines 263-289: one row that did not end the scan.  st holds lwr, rwr,
\* swr and result.
ProcessRow(st, row) ==
    IF row.ncells < 4 THEN st
    ELSE LET pos == CellText(row.pos)
             players == Players(row)
             starter == IF players # <<>> THEN players[1] ELSE <<>>
         IN CASE pos = PosQB -> [st EXCEPT !.result.qb = players]
              [] pos = PosRB -> [st EXCEPT !.result.rb = players]
              [] pos = PosTE -> [st EXCEPT !.result.te = players]
              [] pos = PosLWR -> [st EXCEPT !.lwr = starter]
              [] pos = PosRWR -> [st EXCEPT !.rwr = starter]
              [] pos = PosSWR -> [st EXCEPT !.swr = starter]
              [] pos = PosWR /\ ~(Truthy(st.lwr) \/ Truthy(st.rwr) \/ Truthy(st.swr)) ->
                    IF st.result.wr = <<>>
                    THEN [st EXCEPT !.result.wr = First3(players)]
                    ELSE st
              [] OTHER -> st

\* the end of the function with the starters used only when no WR list is set
FinishKeepFallback(st) ==
    LET wrs == SelectSeq(<<st.lwr, st.rwr, st.swr>>, Truthy)
    IN IF wrs # <<>> /\ st.result.wr = <<>>
       THEN [st.result EXCEPT !.wr = First3(wrs)]
       ELSE st.result

\* lines 291-296: the value returned once the loop has ended
Finish(st) ==
    LET wrs == SelectSeq(<<st.lwr, st.rwr, st.swr>>, Truthy)
    IN IF wrs # <<>>
       THEN [st.result EXCEPT !.wr = First3(wrs)]
       ELSE st.result

\* line 233
EmptyResult == [qb |-> <<>>, rb |-> <<>>, wr |-> <<>>, te |-> <<>>]

\* line 249 and line 233: the state the loop starts in
ScanStart == [lwr |-> None, rwr |-> None, swr |-> None, result |-> EmptyResult]

RECURSIVE ScanFrom(_,_,_)
\* lines 250-296: the loop entered with `tr` the row before row i
ScanFrom(soup, i, st) ==
    IF i > Len(soup) THEN Finish(st)
    ELSE IF IsStopRow(soup[i]) THEN Finish(st)
    ELSE ScanFrom(soup, i + 1, ProcessRow(st, soup[i]))

parse_team_offense(soup, team) ==
    LET start == FindOffenseRow(soup, team)
    IN IF start = 0 THEN EmptyResult
       ELSE ScanFrom(soup, start + 1, ScanStart)


(***************************************************************************)
(* The lookup tables (src/main.py 33-54)                                   *)
(***************************************************************************)
\* TEAM_NAME: Fox abbreviation -> full team name, as (key, value) pairs
TEAM_NAME ==
    << <<<<"A","R","I">>, <<"A","r","i","z","o","n","a"," ","C","a","r","d","i","n","a","l","s">>>>,
       <<<<"A","T","L">>, <<"A","t","l","a","n","t","a"," ","F","a","l","c","o","n","s">>>>,
       <<<<"B","A","L">>, <<"B","a","l","t","i","m","o","r","e"," ","R","a","v","e","n","s">>>>,
       <<<<"B","U","F">>, <<"B","u","f","f","a","l","o"," ","B","i","l","l","s">>>>,
       <<<<"C","A","R">>, <<"C","a","r","o","l","i","n","a"," ","P","a","n","t","h","e","r","s">>>>,
       <<<<"C","H","I">>, <<"C","h","i","c","a","g","o"," ","B","e","a","r","s">>>>,
       <<<<"C","I","N">>, <<"C","i","n","c","i","n","n","a","t","i"," ","B","e","n","g","a","l","s">>>>,
       <<<<"C","L","E">>, <<"C","l","e","v","e","l","a","n","d"," ","B","r","o","w","n","s">>>>,
       <<<<"D","A","L">>, <<"D","a","l","l","a","s"," ","C","o","w","b","o","y","s">>>>,
       <<<<"D","E","N">>, <<"D","e","n","v","e","r"," ","B","r","o","n","c","o","s">>>>,
       <<<<"D","E","T">>, <<"D","e","t","r","o","i","t"," ","L","i","o","n","s">>>>,
       <<<<"G","B">>, <<"G","r","e","e","n"," ","B","a","y"," ","P","a","c","k","e","r","s">>>>,
       <<<<"H","O","U">>, <<"H","o","u","s","t","o","n"," ","T","e","x","a","n","s">>>>,
       <<<<"I","N","D">>, <<"I","n","d","i","a","n","a","p","o","l","i","s"," ","C","o","l","t","s">>>>,
       <<<<"J","A","X">>, <<"J","a","c","k","s","o","n","v","i","l","l","e"," ","J","a","g","u","a","r","s">>>>,
       <<<<"K","C">>, <<"K","a","n","s","a","s"," ","C","i","t","y"," ","C","h","i","e","f","s">>>>,
       <<<<"L","A","C">>, <<"L","o","s"," ","A","n","g","e","l","e","s"," ","C","h","a","r","g","e","r","s">>>>,
       <<<<"L","A","R">>, <<"L","o","s"," ","A","n","g","e","l","e","s"," ","R","a","m","s">>>>,
       <<<<"L","V">>, <<"L","a","s"," ","V","e","g","a","s"," ","R","a","i","d","e","r","s">>>>,
       <<<<"M","I","A">>, <<"M","i","a","m","i"," ","D","o","l","p","h","i","n","s">>>>,
       <<<<"M","I","N">>, <<"M","i","n","n","e","s","o","t","a"," ","V","i","k","i","n","g","s">>>>,
       <<<<"N","E">>, <<"N","e","w"," ","E","n","g","l","a","n","d"," ","P","a","t","r","i","o","t","s">>>>,
       <<<<"N","O">>, <<"N","e","w"," ","O","r","l","e","a","n","s"," ","S","a","i","n","t","s">>>>,
       <<<<"N","Y","G">>, <<"N","e","w"," ","Y","o","r","k"," ","G","i","a","n","t","s">>>>,
       <<<<"N","Y","J">>, <<"N","e","w"," ","Y","o","r","k"," ","J","e","t","s">>>>,
       <<<<"P","H","I">>, <<"P","h","i","l","a","d","e","l","p","h","i","a"," ","E","a","g","l","e","s">>>>,
       <<<<"P","I","T">>, <<"P","i","t","t","s","b","u","r","g","h"," ","S","t","e","e","l","e","r","s">>>>,
       <<<<"S","E","A">>, <<"S","e","a","t","t","l","e"," ","S","e","a","h","a","w","k","s">>>>,
       <<<<"S","F">>, <<"S","a","n"," ","F","r","a","n","c","i","s","c","o"," ","4","9","e","r","s">>>>,
       <<<<"T","B">>, <<"T","a","m","p","a"," ","B","a","y"," ","B","u","c","c","a","n","e","e","r","s">>>>,
       <<<<"T","E","N">>, <<"T","e","n","n","e","s","s","e","e"," ","T","i","t","a","n","s">>>>,
       <<<<"W","A","S">>, <<"W","a","s","h","i","n","g","t","o","n"," ","C","o","m","m","a","n","d","e","r","s">>>> >>

\* TEAM_HEX: Fox abbreviation -> primary colour
TEAM_HEX ==
    << <<<<"A","R","I">>, <<"#","9","7","2","3","3","F">>>>,
       <<<<"A","T","L">>, <<"#","A","7","1","9","3","0">>>>,
       <<<<"B","A","L">>, <<"#","2","4","1","7","7","3">>>>,
       <<<<"B","U","F">>, <<"#","0","0","3","3","8","D">>>>,
       <<<<"C","A","R">>, <<"#","0","0","8","5","C","A">>>>,
       <<<<"C","H","I">>, <<"#","0","B","1","6","2","A">>>>,
       <<<<"C","I","N">>, <<"#","F","B","4","F","1","4">>>>,
       <<<<"C","L","E">>, <<"#","F","F","3","C","0","0">>>>,
       <<<<"D","A","L">>, <<"#","0","4","1","E","4","2">>>>,
       <<<<"D","E","N">>, <<"#","F","B","4","F","1","4">>>>,
       <<<<"D","E","T">>, <<"#","0","0","7","6","B","6">>>>,
       <<<<"G","B">>, <<"#","2","0","3","7","3","1">>>>,
       <<<<"H","O","U">>, <<"#","0","3","2","0","2","F">>>>,
       <<<<"I","N","D">>, <<"#","0","0","2","C","5","F">>>>,
       <<<<"J","A","X">>, <<"#","0","0","6","7","7","8">>>>,
       <<<<"K","C">>, <<"#","E","3","1","8","3","7">>>>,
       <<<<"L","A","C">>, <<"#","0","0","8","0","C","6">>>>,
       <<<<"L","A","R">>, <<"#","0","0","3","5","9","4">>>>,
       <<<<"L","V">>, <<"#","0","0","0","0","0","0">>>>,
       <<<<"M","I","A">>, <<"#","0","0","8","E","9","7">>>>,
       <<<<"M","I","N">>, <<"#","4","F","2","6","8","3">>>>,
       <<<<"N","E">>, <<"#","0","0","2","2","4","4">>>>,
       <<<<"N","O">>, <<"#","D","3","B","C","8","D">>>>,
       <<<<"N","Y","G">>, <<"#","0","B","2","2","6","5">>>>,
       <<<<"N","Y","J">>, <<"#","1","2","5","7","4","0">>>>,
       <<<<"P","H","I">>, <<"#","0","0","4","C","5","4">>>>,
       <<<<"P","I","T">>, <<"#","F","F","B","6","1","2">>>>,
       <<<<"S","E","A">>, <<"#","0","0","2","2","4","4">>>>,
       <<<<"S","F">>, <<"#","A","A","0","0","0","0">>>>,
       <<<<"T","B">>, <<"#","D","5","0","A","0","A">>>>,
       <<<<"T","E","N">>, <<"#","4","B","9","2","D","B">>>>,
       <<<<"W","A","S">>, <<"#","5","A","1","4","1","4">>>> >>

\* MONTHS: the abbreviation at position m is that of month m
MONTHS ==
    << <<"J","A","N">>, <<"F","E","B">>, <<"M","A","R">>, <<"A","P","R">>, <<"M","A","Y">>, <<"J","U","N">>, <<"J","U","L">>, <<"A","U","G">>, <<"S","E","P">>, <<"O","C","T">>, <<"N","O","V">>, <<"D","E","C">> >>

\* d.get(key, default) on a table of pairs
DictGet(d, key, default) ==
    IF \E i \in 1..Len(d) : d[i][1] = key
    THEN d[CHOOSE i \in 1..Len(d) : d[i][1] = key][2]
    ELSE default

(***************************************************************************)
(* format_kickoff (src/main.py 299-318)                                    *)
(***************************************************************************)
DigitSeq == <<"0","1","2","3","4","5","6","7","8","9">>

RECURSIVE IntToStr(_)
\* str(n) of a natural number
IntToStr(n) ==
    IF n < 10 THEN <<DigitSeq[n + 1]>>
    ELSE IntToStr(n \div 10) \o <<DigitSeq[(n % 10) + 1]>>

\* int(tok) succeeds: of the forms int accepts, the plain digit strings
IsIntLiteral(tok) == tok # <<>> /\ \A i \in 1..Len(tok) : IsDigit(tok[i])

RECURSIVE ParseInt(_)
\* int(tok) of a digit string
ParseInt(tok) ==
    IF tok = <<>> THEN 0
    ELSE 10 * ParseInt(SubSeq(tok, 1, Len(tok) - 1))
         + (CHOOSE d \in 0..9 : DigitSeq[d + 1] = tok[Len(tok)])

\* str.upper
Upper(s) == [i \in 1..Len(s) |-> ToUpper(s[i])]

RECURSIVE Replace(_,_,_)
\* s.replace(old, new), old not empty
Replace(s, old, new) ==
    IF Len(s) < Len(old) THEN s
    ELSE IF StartsWith(s, old)
         THEN new \o Replace(SubSeq(s, Len(old) + 1, Len(s)), old, new)
         ELSE <<Head(s)>> \o Replace(Tail(s), old, new)

\* (time_local or "TBD").replace("AM", " AM").replace("PM", " PM")
ReformatTime(time_local) ==
    Replace(Replace(IF time_local = <<>> THEN <<"T","B","D">> ELSE time_local,
                    <<"A","M">>, <<" ","A","M">>),
            <<"P","M">>, <<" ","P","M">>)

\* re.sub(r'^[A-Z]{3},\s*', '', s, flags=re.I)
StripWeekday(s) ==
    IF /\ Len(s) >= 4
       /\ \A i \in 1..3 : IsCased(s[i])
       /\ s[4] = ","
    THEN LStrip(SubSeq(s, 5, Len(s)))
    ELSE s

\* the month number of an abbreviation, 0 when MONTHS has no such key
MonthNumber(abbr) ==
    IF \E m \in 1..12 : MONTHS[m] = abbr
    THEN CHOOSE m \in 1..12 : MONTHS[m] = abbr
    ELSE 0

IsLeap(y) == (y % 4 = 0 /\ y % 100 # 0) \/ y % 400 = 0

\* the days of month m of year y
DaysInMonth(y, m) ==
    IF m = 2 THEN (IF IsLeap(y) THEN 29 ELSE 28)
    ELSE IF m \in {4, 6, 9, 11} THEN 30 ELSE 31

RECURSIVE DaysBeforeMonth(_,_)
DaysBeforeMonth(y, m) ==
    IF m = 1 THEN 0 ELSE DaysBeforeMonth(y, m - 1) + DaysInMonth(y, m - 1)

\* datetime(y, m, d).toordinal(): 1 is Monday, January 1 of year 1
Ordinal(y, m, d) ==
    365 * (y - 1) + ((y - 1) \div 4) - ((y - 1) \div 100) + ((y - 1) \div 400)
    + DaysBeforeMonth(y, m) + d

\* strftime('%A'), indexed by weekday() + 1
DayNames ==
    << <<"M","o","n","d","a","y">>, <<"T","u","e","s","d","a","y">>, <<"W","e","d","n","e","s","d","a","y">>, <<"T","h","u","r","s","d","a","y">>, <<"F","r","i","d","a","y">>, <<"S","a","t","u","r","d","a","y">>, <<"S","u","n","d","a","y">> >>

\* strftime('%B')
MonthNames ==
    << <<"J","a","n","u","a","r","y">>,
       <<"F","e","b","r","u","a","r","y">>,
       <<"M","a","r","c","h">>,
       <<"A","p","r","i","l">>,
       <<"M","a","y">>,
       <<"J","u","n","e">>,
       <<"J","u","l","y">>,
       <<"A","u","g","u","s","t">>,
       <<"S","e","p","t","e","m","b","e","r">>,
       <<"O","c","t","o","b","e","r">>,
       <<"N","o","v","e","m","b","e","r">>,
       <<"D","e","c","e","m","b","e","r">> >>

CommaSp == <<",", " ">>

EtSuffix == <<" ", "E", "T">>

\* the year shown for month `month`, with the rollover applied to January only
DisplayYearJanOnly(month, season_year) ==
    IF month = 1 THEN season_year + 1 ELSE season_year

\* lines 310-312: the year shown for month `month`
DisplayYear(month, season_year) ==
    IF month \in {1, 2} THEN season_year + 1 ELSE season_year

\* lines 307-313 raise no exception: parts splits in two, the first is a key
\* of MONTHS, the second an integer, and datetime accepts the date
KickoffParses(date_label, season_year) ==
    LET toks == Split(StripWeekday(Strip(date_label))) IN
    /\ Len(toks) = 2
    /\ MonthNumber(Upper(toks[1])) # 0
    /\ IsIntLiteral(toks[2])
    /\ LET month == MonthNumber(Upper(toks[1]))
           day == ParseInt(toks[2])
       IN day >= 1 /\ day <= DaysInMonth(DisplayYear(month, season_year), month)

format_kickoff(date_label, time_local, season_year) ==
    LET tm == ReformatTime(time_local) IN
    IF date_label = <<>>
    THEN <<"T","B","D">> \o CommaSp \o IntToStr(season_year) \o CommaSp \o tm \o EtSuffix
    ELSE IF KickoffParses(date_label, season_year)
    THEN LET toks == Split(StripWeekday(Strip(date_label)))
             month == MonthNumber(Upper(toks[1]))
             day == ParseInt(toks[2])
             year == DisplayYear(month, season_year)
         IN DayNames[((Ordinal(year, month, day) + 6) % 7) + 1] \o CommaSp
            \o MonthNames[month] \o <<" ">> \o IntToStr(day) \o CommaSp
            \o IntToStr(year) \o CommaSp \o tm \o EtSuffix
    ELSE date_label \o CommaSp \o IntToStr(season_year) \o CommaSp \o tm \o EtSuffix

(***************************************************************************)
(* location_line, _bold_lines, render_game_html (src/main.py 320-427)      *)
(***************************************************************************)
location_line(venue, city) ==
    IF venue # <<>> /\ city # <<>> THEN venue \o CommaSp \o city
    ELSE IF venue # <<>> THEN venue
    ELSE IF city # <<>> THEN city
    ELSE <<"T","B","D">>

BoldOpen == <<"<","b",">">>

BoldClose == <<"<","/","b",">">>

\* f"<b>{nm}</b>" if nm else "<b></b>"
BoldLine(nm) == IF nm # <<>> THEN BoldOpen \o nm \o BoldClose ELSE BoldOpen \o BoldClose

\* names[:n]
Take(names, n) == SubSeq(names, 1, IF Len(names) < n THEN Len(names) ELSE n)

\* the lines without the padding of short lists
bold_lines_no_pad(names, n) ==
    LET padded == Take(names, n)
    IN Join([i \in 1..Len(padded) |-> BoldLine(padded[i])], <<"\n">>)

\* _bold_lines: names[:n] + [""] * max(0, n - len(names)), one line each
bold_lines(names, n) ==
    LET short == IF n - Len(names) > 0 THEN n - Len(names) ELSE 0
        padded == Take(names, n) \o [i \in 1..short |-> <<>>]
    IN Join([i \in 1..Len(padded) |-> BoldLine(padded[i])], <<"\n">>)

DefaultHex == <<"#","0","0","0","0","0","0">>

\* render_game_html: the values the template interpolates, by name.  A row
\* is a record of the columns read; a missing text column is "".
render_game_html(row, away_off, home_off, season_year) ==
    LET away == Strip(row.away)
        home == Strip(row.home)
    IN [ kickoff |-> format_kickoff(row.date_label, row.time_local, season_year),
         loc |-> location_line(row.venue, row.city),
         network |-> row.network,
         away_hex |-> DictGet(TEAM_HEX, away, DefaultHex),
         away_name |-> DictGet(TEAM_NAME, away,
                               IF away # <<>> THEN away ELSE <<"A","w","a","y"," ","T","e","a","m">>),
         away_qb_block |-> bold_lines(away_off.qb, 1),
         away_rb_block |-> bold_lines(away_off.rb, 3),
         away_wr_block |-> bold_lines(away_off.wr, 3),
         away_te_block |-> bold_lines(away_off.te, 1),
         home_hex |-> DictGet(TEAM_HEX, home, DefaultHex),
         home_name |-> DictGet(TEAM_NAME, home,
                               IF home # <<>> THEN home ELSE <<"H","o","m","e"," ","T","e","a","m">>),
         home_qb_block |-> bold_lines(home_off.qb, 1),
         home_rb_block |-> bold_lines(home_off.rb, 3),
         home_wr_block |-> bold_lines(home_off.wr, 3),
         home_te_block |-> bold_lines(home_off.te, 1) ]

(***************************************************************************)
(* safe_slug (src/main.py 429-430)                                         *)
(***************************************************************************)
\* the class with the period left out
SlugCharNoDot(c) == IsCased(c) \/ IsDigit(c) \/ c \in {"_", "-"}

\* the class [A-Za-z0-9._-]
SlugChar(c) == IsCased(c) \/ IsDigit(c) \/ c \in {".", "_", "-"}

RECURSIVE SlugSub(_,_)
\* re.sub(r'[^A-Za-z0-9._-]+', '_', s): inrun says the previous character
\* was outside the class
SlugSub(s, inrun) ==
    IF s = <<>> THEN <<>>
    ELSE IF SlugChar(Head(s))
         THEN <<Head(s)>> \o SlugSub(Tail(s), FALSE)
         ELSE (IF inrun THEN <<>> ELSE <<"_">>) \o SlugSub(Tail(s), TRUE)

RECURSIVE StripChar(_,_)
\* s.strip(c)
StripChar(s, c) ==
    IF s # <<>> /\ Head(s) = c THEN StripChar(Tail(s), c)
    ELSE IF s # <<>> /\ s[Len(s)] = c THEN StripChar(SubSeq(s, 1, Len(s) - 1), c)
    ELSE s

safe_slug(s) == StripChar(SlugSub(s, FALSE), "_")

(***************************************************************************)
(* write_txt_templates_with_depth (src/main.py 432-464)                    *)
(***************************************************************************)
\* f"{week:02d}" of a natural number
Pad2(week) == IF week < 10 THEN <<"0">> \o IntToStr(week) ELSE IntToStr(week)

\* the default of out_dir
OutDir == <<"o","u","t","_","t","x","t">>

\* lines 455-459: the path of the file of a row
GamePath(row) ==
    LET away_abbr == Strip(row.away)
        home_abbr == Strip(row.home)
        away == IF away_abbr # <<>> THEN away_abbr ELSE <<"A","W","A","Y">>
        home == IF home_abbr # <<>> THEN home_abbr ELSE <<"H","O","M","E">>
        fname == <<"W">> \o Pad2(row.week) \o <<"_">> \o safe_slug(away)
                 \o <<"_","a","t","_">> \o safe_slug(home) \o <<".","t","x","t">>
    IN OutDir \o <<"/">> \o fname

\* lines 445-448: the cache after the lookup of a team name, which calls
\* parse_team_offense when the name is not a key
CacheWith(cache, doc, team_full) ==
    IF team_full \in DOMAIN cache THEN cache
    ELSE cache @@ (team_full :> parse_team_offense(doc, team_full))

\* the calls when every lookup parses, cached or not
CallsForEveryLookup(cache, team_full) == <<team_full>>

\* the calls of parse_team_offense the lookup of a team name makes
CallsFor(cache, team_full) ==
    IF team_full \in DOMAIN cache THEN <<>> ELSE <<team_full>>

(***************************************************************************)
(* State                                                                   *)
(***************************************************************************)
VARIABLES
    \* one call of _normalize_player, and a second call on its result
    raw,        \* the argument
    keep,       \* the list `keep` when the token loop ends
    s2,         \* the text `s2` after the fallback of lines 216-217
    name,       \* the value returned
    name2,      \* _normalize_player(name)
    npc,        \* "call", "ret" (returned), "again" (second call returned)
    \* one call of parse_team_offense
    soup,           \* the rows of the roster document
    team_full_name, \* the team looked for
    offense_row,    \* the index of the row of offense_cell, 0 before the search
    tr,             \* the index of the row `tr`; Len(soup) + 1 stands for None
    lwr, rwr, swr,  \* the starters, None until a row sets them
    result,         \* the dict `result`
    ppc,            \* "find" (lines 236-243), "scan" (the loop), "done"
    \* one call of a function of the renderer
    fn,         \* the function called
    args,       \* its arguments, by parameter name
    ret,        \* the value returned
    rpc,        \* "call", "ret"
    \* one run of write_txt_templates_with_depth
    df,                 \* the game records, in order
    ourlads_soup,       \* the roster document passed as `soup`
    season_year,        \* the season-start year
    ri,                 \* the number of rows of df the loop has processed
    team_offense_cache, \* the dict of that name, as a function
    files,              \* the files of out_dir: file name -> content
    written,            \* the list `written`
    parse_calls,        \* the team names parse_team_offense was called with
    bpc                 \* "loop", "done" (returned)

normVars == <<raw, keep, s2, name, name2, npc>>

parseVars == <<soup, team_full_name, offense_row, tr, lwr, rwr, swr, result, ppc>>

renderVars == <<fn, args, ret, rpc>>

batchVars == <<df, ourlads_soup, season_year, ri, team_offense_cache, files,
               written, parse_calls, bpc>>

vars == <<normVars, parseVars, renderVars, batchVars>>

\* the variables of the other components
notNorm == <<parseVars, renderVars, batchVars>>

notParse == <<normVars, renderVars, batchVars>>

notRender == <<normVars, parseVars, batchVars>>

notBatch == <<normVars, parseVars, renderVars>>

(***************************************************************************)
(* Bounds and input sets                                                   *)
(***************************************************************************)
\* longest enumerated roster-cell text
MaxRawLen == 4

\* the characters enumerated roster-cell texts are built from
NameChars == {"M", "a", "c", " ", ",", "1", "/", "^", NBSP}

\* the examples of the docstring of _normalize_player, two names that
\* exercise the O' and Mac corrections, and a clean token after a stop token
SampleNames ==
    { <<"H","A","R","R","I","S","O","N"," ","J","R",".",","," ","M","A","R","V","I","N"," ","2","4","/","1">>,
      <<"J","o","n","e","s",","," ","Z","a","y"," ","C","C","/","J","a","x">>,
      <<"M","u","r","r","a","y",","," ","K","y","l","e","r"," ","1","9","/","1">>,
      <<"o","'","b","r","i","e","n">>,
      <<"M","A","C","D","O","N","A","L","D"," ","^">>,
      <<"a"," ","1"," ","c">> }

\* most rows after the first header row of an enumerated document
MaxRows == 3

Jets == <<"J","e","t","s">>
Rams == <<"R","a","m","s">>

Teams == {Jets, Rams}

\* a section-header row: one cell, of class dt-sh
HdrRow(text) == TrRow(text, 1, <<>>, <<>>)

\* a depth-chart row: Team | Pos | No. | Player 1 | No | Player 2
DataRow(pos, anchors) == TrRow(None, 6, pos, anchors)

\* the rows documents are built from: depth-chart rows for every position
\* code the function reads, with one, several, blank and no player anchors,
\* a row of fewer than four cells, a row with a header cell that names no
\* section, and the header of another team's offense section
DataRows ==
    { DataRow(<<" ","Q","B">>, <<<<"q">>>>),
      DataRow(PosRB, <<<<"r">>, <<"s">>, <<",">>>>),
      DataRow(PosLWR, <<<<"a">>>>),
      DataRow(PosLWR, <<<<"b">>>>),
      DataRow(PosLWR, <<<<"nbsp">>>>),
      DataRow(PosRWR, <<<<"c">>>>),
      DataRow(PosSWR, <<<<"d">>>>),
      DataRow(PosWR, <<<<"w">>, <<"x">>, <<"y">>, <<"z">>>>),
      DataRow(PosWR, <<>>),
      DataRow(PosWR, <<<<"v">>>>),
      TrRow(None, 3, PosQB, <<<<"k">>>>),
      TrRow(<<"C","o","a","c","h","e","s">>, 4, PosTE, <<<<"t">>>>),
      HdrRow(<<"O","F","F","E","N","S","E"," ","-"," ","R","A","M","S">>) }

\* the headers of the sections that follow a team's offense section
NextSectionHeaders ==
    { <<"D","e","f","e","n","s","e"," ","-"," ","J","e","t","s">>,
      <<"S","p","e","c","i","a","l"," ","T","e","a","m","s"," ","-"," ","J","e","t","s">>,
      <<"P","r","a","c","t","i","c","e"," ","S","q","u","a","d"," ","-"," ","J","e","t","s">>,
      <<"nbsp","R","e","s","e","r","v","e","s"," ","-"," ","J","e","t","s">> }

\* the header row every enumerated document starts with
JetsOffenseRow == HdrRow(<<"O","f","f","e","n","s","e"," ","-"," ","J","e","t","s">>)

\* the rows after the first of a document whose next-section header is h
BodyRows(h) == DataRows \cup {HdrRow(h)}

(***************************************************************************)
(* The normalizer as a state machine                                       *)
(***************************************************************************)
\* a component that is not running
NormIdle ==
    /\ raw = <<>> /\ keep = <<>> /\ s2 = <<>>
    /\ name = <<>> /\ name2 = <<>> /\ npc = "idle"

ParseIdle ==
    /\ soup = <<>> /\ team_full_name = <<>> /\ offense_row = 0 /\ tr = 0
    /\ lwr = None /\ rwr = None /\ swr = None
    /\ result = EmptyResult /\ ppc = "idle"

RenderIdle == fn = "" /\ args = <<>> /\ ret = <<>> /\ rpc = "idle"

BatchIdle ==
    /\ df = <<>> /\ ourlads_soup = <<>> /\ season_year = 0 /\ ri = 0
    /\ team_offense_cache = <<>> /\ files = <<>> /\ written = <<>>
    /\ parse_calls = <<>> /\ bpc = "idle"

InitNorm ==
    /\ \/ \E k \in 0..MaxRawLen : raw \in [1..k -> NameChars]
       \/ raw \in SampleNames
    /\ keep = <<>> /\ s2 = <<>> /\ name = <<>> /\ name2 = <<>>
    /\ npc = "call"
    /\ ParseIdle /\ RenderIdle /\ BatchIdle

\* _normalize_player(raw)
NormalizePlayer ==
    /\ npc = "call"
    /\ LET s == Strip(ReplaceNbsp(raw)) IN
       /\ keep' = IF s = <<>> THEN <<>> ELSE KeepTokens(Split(s))
       /\ s2' = IF s = <<>> THEN <<>> ELSE KeptText(s)
    /\ name' = normalize_player(raw)
    /\ npc' = "ret"
    /\ UNCHANGED <<raw, name2, notNorm>>

\* _normalize_player applied to its own result
NormalizeAgain ==
    /\ npc = "ret"
    /\ name2' = normalize_player(name)
    /\ npc' = "again"
    /\ UNCHANGED <<raw, keep, s2, name, notNorm>>

NextNorm == NormalizePlayer \/ NormalizeAgain

(***************************************************************************)
(* The section parser as a state machine: the search, then one step per    *)
(* iteration of the while loop                                             *)
(***************************************************************************)
\* the documents: the header of the Jets' offense section, then up to
\* MaxRows rows, among them the header of at most one kind of next section
InitParse ==
    /\ \E h \in NextSectionHeaders : \E k \in 0..MaxRows :
          \E body \in [1..k -> BodyRows(h)] : soup = <<JetsOffenseRow>> \o body
    /\ team_full_name \in Teams
    /\ offense_row = 0 /\ tr = 0
    /\ lwr = None /\ rwr = None /\ swr = None
    /\ result = EmptyResult
    /\ ppc = "find"
    /\ NormIdle /\ RenderIdle /\ BatchIdle

\* the locals of the loop as ProcessRow and Finish take them
ScanState == [lwr |-> lwr, rwr |-> rwr, swr |-> swr, result |-> result]

\* lines 236-249, a header matches: the scan starts at its row
FindOffense ==
    /\ ppc = "find"
    /\ FindOffenseRow(soup, team_full_name) # 0
    /\ offense_row' = FindOffenseRow(soup, team_full_name)
    /\ tr' = offense_row'
    /\ ppc' = "scan"
    /\ UNCHANGED <<notParse, soup, team_full_name, lwr, rwr, swr, result>>

\* lines 242-243: no header matches, the empty result is returned
NotFound ==
    /\ ppc = "find"
    /\ FindOffenseRow(soup, team_full_name) = 0
    /\ ppc' = "done"
    /\ UNCHANGED <<notParse, soup, team_full_name, offense_row, tr, lwr, rwr, swr, result>>

\* lines 251-253 and 291-296: no sibling remains
ScanEnd ==
    /\ ppc = "scan"
    /\ tr + 1 > Len(soup)
    /\ tr' = tr + 1
    /\ result' = Finish(ScanState)
    /\ ppc' = "done"
    /\ UNCHANGED <<notParse, soup, team_full_name, offense_row, lwr, rwr, swr>>

\* lines 255-261 and 291-296: the next sibling is a header row that ends the scan
ScanStop ==
    /\ ppc = "scan"
    /\ tr + 1 <= Len(soup)
    /\ IsStopRow(soup[tr + 1])
    /\ tr' = tr + 1
    /\ result' = Finish(ScanState)
    /\ ppc' = "done"
    /\ UNCHANGED <<notParse, soup, team_full_name, offense_row, lwr, rwr, swr>>

\* lines 263-265: the next sibling has fewer than four cells
ScanSkip ==
    /\ ppc = "scan"
    /\ tr + 1 <= Len(soup)
    /\ ~IsStopRow(soup[tr + 1])
    /\ soup[tr + 1].ncells < 4
    /\ tr' = tr + 1
    /\ UNCHANGED <<notParse, soup, team_full_name, offense_row, lwr, rwr, swr, result, ppc>>

\* lines 266-289: the next sibling is read
ScanRow ==
    /\ ppc = "scan"
    /\ tr + 1 <= Len(soup)
    /\ ~IsStopRow(soup[tr + 1])
    /\ soup[tr + 1].ncells >= 4
    /\ tr' = tr + 1
    /\ LET st == ProcessRow(ScanState, soup[tr + 1]) IN
       /\ lwr' = st.lwr
       /\ rwr' = st.rwr
       /\ swr' = st.swr
       /\ result' = st.result
    /\ UNCHANGED <<notParse, soup, team_full_name, offense_row, ppc>>

NextParse ==
    \/ FindOffense \/ NotFound
    \/ ScanEnd \/ ScanStop \/ ScanSkip \/ ScanRow

(***************************************************************************)
(* The renderer as a state machine: one call of one of its functions       *)
(***************************************************************************)
\* most names in an enumerated position list
MaxNames == 4

\* the names position lists are built from
PlayerNames ==
    { <<"A">>, <<"B">>, <<"C"," ","D">> }

\* the values render_game_html passes as n
LineCounts == {1, 3}

\* the weekday prefixes, month tokens and day tokens date labels are built
\* from: Fox's form "SUN, JAN 4" and departures from it
WeekdayPrefixes ==
    { <<>>, <<"S","U","N",","," ">>, <<"s","u","n",",">>, <<"S","U","N","D","A","Y",","," ">> }

MonthTokens ==
    { <<"J","A","N">>, <<"F","E","B">>, <<"M","a","r">>, <<"S","E","P">>, <<"D","E","C">>, <<"J","a","n","u","a","r","y">> }

DayTokens ==
    { <<"4">>, <<"0","7">>, <<"2","8">>, <<"2","9">>, <<"3","0">>, <<"3","1">>, <<"0">>, <<"x">> }

\* labels of other shapes: empty, blank, no day, three tokens
OddLabels ==
    { <<>>, <<" ">>, <<"T","B","D">>, <<"J","A","N">>, <<"J","A","N"," ","4"," ","5">> }

DateLabels ==
    {w \o m \o <<" ">> \o d : w \in WeekdayPrefixes, m \in MonthTokens, d \in DayTokens}
    \cup OddLabels

TimeLabels ==
    { <<>>, <<"1",":","0","0","P","M">>, <<"1","0",":","3","0","A","M">> }

\* season-start years: the year after is a leap year for one, not for the others
SeasonYears == {2023, 2024, 2025}

\* longest enumerated team code
MaxCodeLen == 4

\* the characters enumerated team codes are built from
CodeChars == {"L", "V", "7", ".", "_", "-", " ", "/"}

\* the game rows render_game_html is called with
RenderRows ==
    { [week |-> 1, away |-> a, home |-> h, date_label |-> d,
       time_local |-> <<"1",":","0","0","P","M">>, venue |-> v, city |-> c,
       network |-> <<"F","O","X">>] :
        a \in {<<"N","Y","J">>, <<" ","L","A","R"," ">>, <<>>},
        h \in {<<"L","A","R">>, <<"X","Y","Z">>},
        d \in {<<"S","U","N",","," ","J","A","N"," ","4">>, <<>>},
        v \in {<<"S","o","F","i"," ","S","t","a","d","i","u","m">>, <<>>},
        c \in {<<"I","n","g","l","e","w","o","o","d",","," ","C","A">>, <<>>} }

\* OffenseDepth values as parse_team_offense builds them: any number of
\* quarterbacks, running backs and tight ends, at most 3 wide receivers;
\* the lists are empty, shorter than, as long as and longer than the line
\* counts
DepthSamples ==
    { [qb |-> q, rb |-> r, wr |-> w, te |-> q] :
        q \in {<<>>, << <<"A">>, <<"B">> >>},
        r \in {<<>>, << <<"B">> >>, << <<"A">>, <<"B">>, <<"C"," ","D">>, <<"A">> >>},
        w \in {<<>>, << <<"A">>, <<"B">>, <<"C"," ","D">> >>} }

InitRender ==
    /\ \/ /\ fn = "_bold_lines"
          /\ \E k \in 0..MaxNames : \E names \in [1..k -> PlayerNames] :
                \E n \in LineCounts : args = [names |-> names, n |-> n]
       \/ /\ fn = "format_kickoff"
          /\ \E d \in DateLabels : \E tl \in TimeLabels : \E y \in SeasonYears :
                args = [date_label |-> d, time_local |-> tl, season_year |-> y]
       \/ /\ fn = "safe_slug"
          /\ \E k \in 0..MaxCodeLen : \E s \in [1..k -> CodeChars] : args = [s |-> s]
       \/ /\ fn = "render_game_html"
          /\ \E row \in RenderRows : \E ao \in DepthSamples : \E ho \in DepthSamples :
                args = [row |-> row, away_off |-> ao, home_off |-> ho,
                        season_year |-> 2025]
    /\ ret = <<>>
    /\ rpc = "call"
    /\ NormIdle /\ ParseIdle /\ BatchIdle

\* _bold_lines(names, n)
BoldLines ==
    /\ rpc = "call" /\ fn = "_bold_lines"
    /\ ret' = bold_lines(args.names, args.n)
    /\ rpc' = "ret"
    /\ UNCHANGED <<notRender, fn, args>>

\* format_kickoff(date_label, time_local, season_year)
FormatKickoff ==
    /\ rpc = "call" /\ fn = "format_kickoff"
    /\ ret' = format_kickoff(args.date_label, args.time_local, args.season_year)
    /\ rpc' = "ret"
    /\ UNCHANGED <<notRender, fn, args>>

\* safe_slug(s)
SafeSlug ==
    /\ rpc = "call" /\ fn = "safe_slug"
    /\ ret' = safe_slug(args.s)
    /\ rpc' = "ret"
    /\ UNCHANGED <<notRender, fn, args>>

\* render_game_html(row, away_off, home_off, season_year)
RenderGameHtml ==
    /\ rpc = "call" /\ fn = "render_game_html"
    /\ ret' = render_game_html(args.row, args.away_off, args.home_off, args.season_year)
    /\ rpc' = "ret"
    /\ UNCHANGED <<notRender, fn, args>>

NextRender == BoldLines \/ FormatKickoff \/ SafeSlug \/ RenderGameHtml

(***************************************************************************)
(* The batch writer as a state machine: one step per game row              *)
(***************************************************************************)
\* most game rows in an enumerated batch
MaxGames == 2

\* the (away, home) team codes of the game rows, as the schedule scraper
\* delivers them: both in the table, one or both missing (the teams cell was
\* not found), one not in the table
Matchups ==
    { <<<<"N","Y","J">>, <<"L","A","R">>>>,
      <<<<"L","A","R">>, <<"N","Y","J">>>>,
      <<<<"N","Y","J">>, <<>> >>,
      << <<>>, <<"L","A","R">>>>,
      << <<>>, <<>> >>,
      <<<<"N"," ","J">>, <<"N","Y","J">>>> }

\* the weeks a batch is built for
BatchWeeks == {1, 12}

\* the game rows of week w; two kickoff times tell games with the same
\* codes apart
GameRows(w) ==
    { [week |-> w, away |-> m[1], home |-> m[2],
       date_label |-> <<"S","U","N",","," ","S","E","P"," ","1","4">>, time_local |-> tl,
       venue |-> <<>>, city |-> <<>>, network |-> <<"C","B","S">>] :
        m \in Matchups,
        tl \in {<<"1",":","0","0","P","M">>, <<"4",":","2","5","P","M">>} }

\* the roster documents: the Rams' and the Jets' offense sections, and the
\* Jets' only
RosterDocs ==
    LET rams == <<HdrRow(<<"O","f","f","e","n","s","e"," ","-"," ","L","o","s"," ","A","n","g","e","l","e","s"," ","R","a","m","s">>),
                  DataRow(PosQB, << <<"r","a","m",","," ","q">> >>),
                  DataRow(PosLWR, << <<"r","a","m",","," ","w">> >>),
                  HdrRow(<<"D","e","f","e","n","s","e"," ","-"," ","L","o","s"," ","A","n","g","e","l","e","s"," ","R","a","m","s">>)>>
        jets == <<HdrRow(<<"O","f","f","e","n","s","e"," ","-"," ","N","e","w"," ","Y","o","r","k"," ","J","e","t","s">>),
                  DataRow(PosQB, << <<"j","e","t",","," ","q">> >>),
                  DataRow(PosTE, << <<"j","e","t",","," ","t">> >>),
                  HdrRow(<<"D","e","f","e","n","s","e"," ","-"," ","N","e","w"," ","Y","o","r","k"," ","J","e","t","s">>)>>
    IN {rams \o jets, jets}

InitBatch ==
    /\ \E w \in BatchWeeks : \E k \in 0..MaxGames : df \in [1..k -> GameRows(w)]
    /\ ourlads_soup \in RosterDocs
    /\ season_year = 2025
    /\ ri = 0
    /\ team_offense_cache = <<>>
    /\ files = <<>>
    /\ written = <<>>
    /\ parse_calls = <<>>
    /\ bpc = "loop"
    /\ NormIdle /\ ParseIdle /\ RenderIdle

\* lines 439-462: one iteration of the loop, for the row df[ri + 1]
WriteGame ==
    /\ bpc = "loop"
    /\ ri < Len(df)
    /\ LET row == df[ri + 1]
           away_full == DictGet(TEAM_NAME, Strip(row.away), <<>>)
           home_full == DictGet(TEAM_NAME, Strip(row.home), <<>>)
       IN \E cache1 \in {CacheWith(team_offense_cache, ourlads_soup, away_full)} :
          \E cache2 \in {CacheWith(cache1, ourlads_soup, home_full)} :
          \E away_off \in {cache2[away_full]} :
          \E home_off \in {cache2[home_full]} :
            /\ team_offense_cache' = cache2
            /\ parse_calls' = parse_calls \o CallsFor(team_offense_cache, away_full)
                                          \o CallsFor(cache1, home_full)
            /\ files' = (GamePath(row) :>
                            render_game_html(row, away_off, home_off, season_year))
                         @@ files
            /\ written' = Append(written, GamePath(row))
    /\ ri' = ri + 1
    /\ UNCHANGED <<notBatch, df, ourlads_soup, season_year, bpc>>

\* line 464: the loop is over, `written` is returned
ReturnWritten ==
    /\ bpc = "loop"
    /\ ri = Len(df)
    /\ bpc' = "done"
    /\ UNCHANGED <<notBatch, df, ourlads_soup, season_year, ri,
                   team_offense_cache, files, written, parse_calls>>

NextBatch == WriteGame \/ ReturnWritten

(***************************************************************************)
(* Specifications: one per component, the others idle                      *)
(***************************************************************************)
SpecNorm == InitNorm /\ [][NextNorm]_vars

SpecParse == InitParse /\ [][NextParse]_vars

SpecRender == InitRender /\ [][NextRender]_vars

SpecBatch == InitBatch /\ [][NextBatch]_vars

(***************************************************************************)
(* C4, C10: the normalizer                                                 *)
(***************************************************************************)
\* the precondition of C4: no comma, no digit, no slash
CleanName(x) == \A i \in 1..Len(x) : x[i] # "," /\ ~IsDigit(x[i]) /\ x[i] # "/"

\* C4: for every input x with no comma, no digit and no slash,
\* _normalize_player(_normalize_player(x)) = _normalize_player(x).
C4_NormalizeIdempotent ==
    (npc = "again" /\ CleanName(raw)) => name2 = name

\* a clean input that normalization changes (the Mc correction applied), and
\* whose result was normalized again
C4_Witness ==
    /\ npc = "again" /\ CleanName(raw)
    /\ name = <<"M","c","A">> /\ raw # name

\* the stop test as C10 words it
ClaimStop(tok) ==
    \/ \E i \in 1..Len(tok) : tok[i] \in DigitChars
    \/ \E i \in 1..Len(tok) : tok[i] = "/"
    \/ tok[Len(tok)] = "^"

\* the tokens before the first stop token
TokensBeforeStop(toks) ==
    LET stops == {i \in 1..Len(toks) : ClaimStop(toks[i])}
        k == IF stops = {} THEN Len(toks) + 1
             ELSE CHOOSE i \in stops : \A j \in stops : i <= j
    IN SubSeq(toks, 1, k - 1)

Trimmed(x) == Strip(ReplaceNbsp(x))

\* the first two parts of C10: which tokens are kept, and the fallback
KeepsPrefix ==
    /\ keep = TokensBeforeStop(Split(Trimmed(raw)))
    /\ keep # <<>> => s2 = Join(keep, <<" ">>)
    /\ keep = <<>> => s2 = Trimmed(raw)

\* C10 as stated: the kept tokens are those before the first stop token, the
\* trimmed input is used when none is kept, and a non-blank input never
\* normalizes to the empty string.
C10_Original ==
    npc # "call" =>
        /\ KeepsPrefix
        /\ Trimmed(raw) # <<>> => name # <<>>

\* C10 as amended: a non-blank input normalizes to the empty string exactly
\* when the only kept token is a lone comma.
C10_KeepAndFallback ==
    npc # "call" =>
        /\ KeepsPrefix
        /\ Trimmed(raw) # <<>> => (name = <<>> <=> keep = << <<",">> >>)

\* a clean token after a stop token is discarded with it
C10_Witness ==
    /\ npc = "ret"
    /\ raw = <<"a", " ", "1", " ", "c">>
    /\ keep = << <<"a">> >>
    /\ name = <<"A">>

(***************************************************************************)
(* C5, C6, C7: the renderer helpers                                        *)
(***************************************************************************)
RECURSIVE LinesOf(_)
\* the lines of a text: the pieces between its line feeds
LinesOf(text) ==
    IF \E i \in 1..Len(text) : text[i] = "\n"
    THEN LET i == CHOOSE i \in 1..Len(text) :
                     text[i] = "\n" /\ \A j \in 1..(i - 1) : text[j] # "\n"
         IN <<SubSeq(text, 1, i - 1)>> \o LinesOf(SubSeq(text, i + 1, Len(text)))
    ELSE <<text>>

\* block is exactly n lines: line k wraps names[k] for k up to
\* min(Len(names), n), and the lines after those are "<b></b>"
IsBlock(block, names, n) ==
    /\ Len(LinesOf(block)) = n
    /\ \A k \in 1..n :
          LinesOf(block)[k] =
             IF k <= Len(names)
             THEN <<"<","b",">">> \o names[k] \o <<"<","/","b",">">>
             ELSE <<"<","b",">","<","/","b",">">>

\* C5: _bold_lines(names, n) is exactly n bold-wrapped lines for every list
\* length; the first min(len, n) wrap the first names in order and the rest
\* are "<b></b>".  In render_game_html the counts are quarterback 1, running
\* back 3, wide receiver 3, tight end 1, for the away and the home side.
C5_BoldLines ==
    /\ (rpc = "ret" /\ fn = "_bold_lines") => IsBlock(ret, args.names, args.n)
    /\ (rpc = "ret" /\ fn = "render_game_html") =>
          /\ IsBlock(ret.away_qb_block, args.away_off.qb, 1)
          /\ IsBlock(ret.away_rb_block, args.away_off.rb, 3)
          /\ IsBlock(ret.away_wr_block, args.away_off.wr, 3)
          /\ IsBlock(ret.away_te_block, args.away_off.te, 1)
          /\ IsBlock(ret.home_qb_block, args.home_off.qb, 1)
          /\ IsBlock(ret.home_rb_block, args.home_off.rb, 3)
          /\ IsBlock(ret.home_wr_block, args.home_off.wr, 3)
          /\ IsBlock(ret.home_te_block, args.home_off.te, 1)

\* a rendering whose away side has four running backs (cut to three) and
\* whose home side has one (padded to three)
C5_Witness ==
    /\ rpc = "ret" /\ fn = "render_game_html"
    /\ Len(args.away_off.rb) = 4 /\ Len(args.home_off.rb) = 1
    /\ ret.away_rb_block = <<"<","b",">","A","<","/","b",">","\n","<","b",">","B","<","/","b",">","\n","<","b",">","C"," ","D","<","/","b",">">>
    /\ ret.home_rb_block = <<"<","b",">","B","<","/","b",">","\n","<","b",">","<","/","b",">","\n","<","b",">","<","/","b",">">>

\* a January or February date label: one that names the month
JanFebLabel(date_label) ==
    \/ Contains(Upper(date_label), <<"J","A","N">>)
    \/ Contains(Upper(date_label), <<"F","E","B">>)

\* the year a kickoff line displays is y: the line ends ", y, <time> ET"
ShowsYear(text, y) ==
    \E i \in 1..(Len(text) - 7) :
        /\ SubSeq(text, i, i + 7) = CommaSp \o IntToStr(y) \o CommaSp
        /\ \A j \in (i + 8)..Len(text) : text[j] # ","

\* C6 as stated: format_kickoff displays the season-start year plus one for
\* every January or February date label, and the season-start year for
\* every other month.
C6_Original ==
    (rpc = "ret" /\ fn = "format_kickoff") =>
        ShowsYear(ret, IF JanFebLabel(args.date_label)
                       THEN args.season_year + 1 ELSE args.season_year)

\* C6 as amended: the year plus one is displayed for the January and
\* February labels that parse (an optional three-letter weekday and comma,
\* a three-letter month, a day that exists in that month of the following
\* year); every other label, the January and February labels that do not
\* parse among them, displays the season-start year.
C6_YearRollover ==
    (rpc = "ret" /\ fn = "format_kickoff") =>
        ShowsYear(ret, IF /\ JanFebLabel(args.date_label)
                          /\ KickoffParses(args.date_label, args.season_year)
                       THEN args.season_year + 1 ELSE args.season_year)

\* the example of the specification: a January label, season 2025
C6_Witness ==
    /\ rpc = "ret" /\ fn = "format_kickoff"
    /\ args.date_label = <<"S","U","N",","," ","J","A","N"," ","4">>
    /\ args.season_year = 2025
    /\ ret = <<"S","u","n","d","a","y",","," ","J","a","n","u","a","r","y"," ","4",","," ","2","0","2","6",","," ","1",":","0","0"," ","P","M"," ","E","T">>

\* the permitted set: letters, digits, period, underscore, hyphen
Permitted(c) ==
    \/ c \in {LowerLetters[i] : i \in 1..26} \cup {UpperLetters[i] : i \in 1..26}
    \/ c \in DigitChars
    \/ c \in {".", "_", "-"}

\* s with every run of characters outside the permitted set collapsed to
\* one underscore, then without its leading and trailing underscores
Sanitized(s) ==
    LET ok(c) == Permitted(c)
        starts == {i \in 1..Len(s) : ok(s[i]) \/ i = 1 \/ ok(s[i - 1])}
        nth(k) == CHOOSE i \in starts : Cardinality({j \in starts : j <= i}) = k
        collapsed == [k \in 1..Cardinality(starts) |->
                         IF ok(s[nth(k)]) THEN s[nth(k)] ELSE "_"]
        inner == {k \in 1..Len(collapsed) : collapsed[k] # "_"}
    IN IF inner = {} THEN <<>>
       ELSE SubSeq(collapsed,
                   CHOOSE k \in inner : \A j \in inner : k <= j,
                   CHOOSE k \in inner : \A j \in inner : j <= k)

\* C7 as stated: "L.V." sanitizes to "L_V"; every run of characters outside
\* the permitted set is collapsed to one underscore and leading and trailing
\* underscores are stripped.
C7_Original ==
    (rpc = "ret" /\ fn = "safe_slug") =>
        /\ args.s = <<"L",".","V",".">> => ret = <<"L","_","V">>
        /\ ret = Sanitized(args.s)

\* C7 as amended: the period is permitted, so "L.V." sanitizes to itself;
\* every run of characters outside letters, digits, period, underscore and
\* hyphen is collapsed to one underscore and leading and trailing
\* underscores are stripped.
C7_SafeSlug ==
    (rpc = "ret" /\ fn = "safe_slug") =>
        /\ args.s = <<"L",".","V",".">> => ret = <<"L",".","V",".">>
        /\ ret = Sanitized(args.s)

\* the code of the example was sanitized, and is unchanged
C7_Witness ==
    /\ rpc = "ret" /\ fn = "safe_slug"
    /\ args.s = <<"L",".","V",".">>
    /\ ret = <<"L",".","V",".">>

(***************************************************************************)
(* C8: the batch writer                                                    *)
(***************************************************************************)
\* the rendering of the game of row i: from the offense sections of its
\* two teams in the roster document
RenderingOf(i) ==
    render_game_html(df[i],
        parse_team_offense(ourlads_soup, DictGet(TEAM_NAME, Strip(df[i].away), <<>>)),
        parse_team_offense(ourlads_soup, DictGet(TEAM_NAME, Strip(df[i].home), <<>>)),
        season_year)

\* C8: after a run over n game records, n distinct files exist, each
\* holding the rendering of its own game: no game's file is overwritten by
\* a later game with the same week and the same sanitized (or placeholder)
\* team codes.
C8_OneFilePerGame ==
    bpc = "done" =>
        /\ Cardinality(DOMAIN files) = Len(df)
        /\ \A i \in 1..Len(df) : files[written[i]] = RenderingOf(i)

(***************************************************************************)
(* C11: the cache of the batch writer                                      *)
(***************************************************************************)
\* the display name the cache is keyed by for a team code
DisplayName(code) == DictGet(TEAM_NAME, Strip(code), <<>>)

\* parse_team_offense was called at most once per display name, the cache
\* has one entry per call, and the entry is what the call returned
ParsedOnce ==
    /\ \A i, j \in 1..Len(parse_calls) : parse_calls[i] = parse_calls[j] => i = j
    /\ DOMAIN team_offense_cache = {parse_calls[i] : i \in 1..Len(parse_calls)}
    /\ \A i \in 1..Len(parse_calls) :
          team_offense_cache[parse_calls[i]] =
             parse_team_offense(ourlads_soup, parse_calls[i])

\* the game written last was rendered from the cached entries of its teams
RenderedFromCache ==
    ri > 0 =>
        /\ DisplayName(df[ri].away) \in DOMAIN team_offense_cache
        /\ DisplayName(df[ri].home) \in DOMAIN team_offense_cache
        /\ files[written[ri]] =
              render_game_html(df[ri],
                               team_offense_cache[DisplayName(df[ri].away)],
                               team_offense_cache[DisplayName(df[ri].home)],
                               season_year)

\* C11: within one run, parse_team_offense is invoked at most once per team
\* display name, for any sequence of games; every game involving a team, as
\* away or as home, is rendered from the same cached OffenseDepth, and
\* rendering a game never changes a cached entry.
C11_ParseOncePerTeam ==
    /\ [](ParsedOnce /\ RenderedFromCache)
    /\ [][ /\ \A k \in DOMAIN team_offense_cache :
                 /\ k \in DOMAIN team_offense_cache'
                 /\ team_offense_cache'[k] = team_offense_cache[k]
           /\ Len(parse_calls') >= Len(parse_calls)
           /\ SubSeq(parse_calls', 1, Len(parse_calls)) = parse_calls ]_vars

\* a run of two games in which the Jets are away, then home: two calls, one
\* per team, and the second game used the entries of the first
C11_Witness ==
    /\ bpc = "done" /\ Len(df) = 2
    /\ Strip(df[1].away) = <<"N","Y","J">> /\ Strip(df[2].home) = <<"N","Y","J">>
    /\ Strip(df[1].home) = <<"L","A","R">> /\ Strip(df[2].away) = <<"L","A","R">>
    /\ parse_calls = <<<<"N","e","w"," ","Y","o","r","k"," ","J","e","t","s">>, <<"L","o","s"," ","A","n","g","e","l","e","s"," ","R","a","m","s">>>>
    /\ files[written[2]].home_qb_block = files[written[1]].away_qb_block
    /\ files[written[2]].home_qb_block = <<"<","b",">","Q"," ","J","e","t","<","/","b",">">>

(***************************************************************************)
(* C12: team codes outside the table                                       *)
(***************************************************************************)
\* the code, trimmed, is a key of the 32-entry TEAM_NAME table
KnownCode(code) == \E i \in 1..Len(TEAM_NAME) : TEAM_NAME[i][1] = Strip(code)

\* the four blocks of a side are blank player lines: 1, 3, 3, 1 of them
BlankSide(qb_block, rb_block, wr_block, te_block) ==
    /\ IsBlock(qb_block, <<>>, 1)
    /\ IsBlock(rb_block, <<>>, 3)
    /\ IsBlock(wr_block, <<>>, 3)
    /\ IsBlock(te_block, <<>>, 1)

\* C12: in a batch run, a game whose away or home code is empty or absent
\* from the TEAM_NAME table is rendered with blank player lines for that
\* side; it never receives players of another team's offense section.
C12_UnknownTeamBlank ==
    ri > 0 =>
        LET html == files[written[ri]] IN
        /\ ~KnownCode(df[ri].away) =>
              BlankSide(html.away_qb_block, html.away_rb_block,
                        html.away_wr_block, html.away_te_block)
        /\ ~KnownCode(df[ri].home) =>
              BlankSide(html.home_qb_block, html.home_rb_block,
                        html.home_wr_block, html.home_te_block)

(***************************************************************************)
(* C1, C2, C3, C9: the section parser                                      *)
(***************************************************************************)
\* the stop test as C1 words it: a section-header cell whose lower-cased
\* text begins with one of the five prefixes
ClaimStopRow(row) ==
    /\ row.hdr # None
    /\ \E p \in { <<"d","e","f","e","n","s","e"," ","-">>,
                  <<"s","p","e","c","i","a","l"," ","t","e","a","m","s"," ","-">>,
                  <<"p","r","a","c","t","i","c","e"," ","s","q","u","a","d"," ","-">>,
                  <<"r","e","s","e","r","v","e","s"," ","-">>,
                  <<"o","f","f","e","n","s","e"," ","-">> } :
          StartsWith(Lower(Strip(row.hdr)), p)

\* the first stop row after the matched header row; Len(soup) + 1 when no
\* sibling is one
StopIndex ==
    LET stops == {i \in (offense_row + 1)..Len(soup) : ClaimStopRow(soup[i])}
    IN IF stops = {} THEN Len(soup) + 1
       ELSE CHOOSE i \in stops : \A j \in stops : i <= j

Found == offense_row # 0

\* what C1 says of a state: every row read lies before the stop row, and
\* the scan ends at the stop row (past the last row when there is none)
\* with the value the document cut before the stop row gives
StopsAtStopRow ==
    /\ ppc = "scan" => (offense_row <= tr /\ tr < StopIndex /\ tr <= Len(soup))
    /\ (ppc = "done" /\ Found) =>
          /\ tr = StopIndex
          /\ result = parse_team_offense(SubSeq(soup, 1, StopIndex - 1),
                                         team_full_name)

\* C1: the scan visits the siblings of the matched header row in document
\* order and ends at the first stop row or when no sibling remains: no row
\* at or after the stop row is read or changes the value returned, and
\* every step moves to the next sibling, so the scan ends within Len(soup)
\* steps.
C1_ScanStops ==
    /\ []StopsAtStopRow
    /\ [][ppc = "scan" => (tr' = tr + 1 /\ ppc' \in {"scan", "done"})]_vars

\* the scan ended at a stop row that a quarterback row follows, after
\* reading at least one row, and the quarterback list is empty
C1_Witness ==
    /\ ppc = "done" /\ Found
    /\ tr = StopIndex /\ tr > offense_row + 1 /\ tr < Len(soup)
    /\ soup[tr + 1].ncells >= 4
    /\ Strip(soup[tr + 1].pos) = PosQB
    /\ result.qb = <<>>

\* the rows of the team's section that are read: before the stop row, with
\* at least four cells
SectionRows ==
    {i \in (offense_row + 1)..(StopIndex - 1) : soup[i].ncells >= 4}

RowsOf(code) == {i \in SectionRows : Strip(soup[i].pos) = code}

\* the first extracted name of a row, "" when it has none
FirstName(row) == IF Players(row) = <<>> THEN <<>> ELSE Players(row)[1]

\* the starter captured for a code: the one the scan holds when it ends,
\* that of the last row of the code in the section (None when there is none)
Captured(code) ==
    IF RowsOf(code) = {} THEN None
    ELSE FirstName(soup[CHOOSE i \in RowsOf(code) : \A j \in RowsOf(code) : j <= i])

\* C2: if at least one of the LWR, RWR, SWR starters is captured with a
\* non-empty name, the wide-receiver list returned is exactly the captured
\* non-empty starters in left, right, slot order (at most 3), whatever the
\* order of the rows and whatever bare-WR list was set before.
C2_StartersOverride ==
    (ppc = "done" /\ Found) =>
        LET caps == <<Captured(PosLWR), Captured(PosRWR), Captured(PosSWR)>>
        IN (\E k \in 1..3 : Truthy(caps[k])) =>
              /\ result.wr = SelectSeq(caps, Truthy)
              /\ Len(result.wr) <= 3

\* a bare WR row with a name, then the SWR row, then the LWR row: the list
\* is left, slot
C2_Witness ==
    /\ ppc = "done" /\ Found /\ Len(soup) = 4
    /\ Strip(soup[2].pos) = PosWR /\ Players(soup[2]) # <<>>
    /\ Strip(soup[3].pos) = PosSWR
    /\ Strip(soup[4].pos) = PosLWR
    /\ result.wr = << <<"A">>, <<"D">> >>

\* a step of the scan that changes the wide-receiver list: a bare WR row is
\* adopted
AdoptsWR == ppc = "scan" /\ ppc' = "scan" /\ result'.wr # result.wr

\* the rows read so far
RowsRead == {i \in (offense_row + 1)..tr : soup[i].ncells >= 4}

StarterCodes == {PosLWR, PosRWR, PosSWR}

\* every row of the section is a bare WR row, and there is one
OnlyBareWR ==
    /\ SectionRows = (offense_row + 1)..(StopIndex - 1)
    /\ SectionRows # {}
    /\ \A i \in SectionRows : Strip(soup[i].pos) = PosWR

\* C3 as stated: a bare WR row is adopted only if no LWR, RWR or SWR row was
\* seen earlier and no WR list is set yet; a section of bare WR rows only
\* returns the first WR row's names, capped at 3.
C3_Original ==
    /\ [][ AdoptsWR =>
              /\ \A i \in RowsRead : Strip(soup[i].pos) \notin StarterCodes
              /\ result.wr = <<>> ]_vars
    /\ []((ppc = "done" /\ Found /\ OnlyBareWR) =>
              result.wr = First3(Players(soup[offense_row + 1])))

\* the bare WR rows of the section that have at least one name
NamedWRRows == {i \in RowsOf(PosWR) : Players(soup[i]) # <<>>}

\* C3 as amended: a bare WR row is adopted only if none of the three
\* starters holds a non-empty name at that point and the WR list is still
\* empty; a section without LWR, RWR and SWR rows returns the names, capped
\* at 3, of its first bare WR row that has a name.
C3_FallbackWR ==
    /\ [][ AdoptsWR =>
              /\ Strip(soup[tr'].pos) = PosWR
              /\ ~(Truthy(lwr) \/ Truthy(rwr) \/ Truthy(swr))
              /\ result.wr = <<>>
              /\ result'.wr = First3(Players(soup[tr'])) ]_vars
    /\ []((ppc = "done" /\ Found /\ \A c \in StarterCodes : RowsOf(c) = {}) =>
              result.wr =
                 (IF NamedWRRows = {} THEN <<>>
                  ELSE First3(Players(soup[CHOOSE i \in NamedWRRows :
                                             \A j \in NamedWRRows : i <= j]))))

\* a bare WR row without names, then one with four names, then one with one
\* name: the list is the first three of the four
C3_Witness ==
    /\ ppc = "done" /\ Found /\ Len(soup) = 4
    /\ \A i \in 2..4 : soup[i].ncells >= 4 /\ Strip(soup[i].pos) = PosWR
    /\ Players(soup[2]) = <<>>
    /\ Len(Players(soup[3])) = 4
    /\ Len(Players(soup[4])) = 1
    /\ result.wr = First3(Players(soup[3]))

\* a step of the scan that reads a row of the given position code
ReadsCode(code) ==
    /\ ppc = "scan" /\ ppc' = "scan"
    /\ soup[tr'].ncells >= 4
    /\ Strip(soup[tr'].pos) = code

\* C9 as stated: once a starter is recorded, no later step of the scan
\* changes it.
C9_Original ==
    [][ (ppc = "scan" /\ ppc' = "scan") =>
            /\ lwr # None => lwr' = lwr
            /\ rwr # None => rwr' = rwr
            /\ swr # None => swr' = swr ]_vars

\* C9 as amended: the starters are last-wins.  Every row of the section
\* with code LWR (RWR, SWR) sets the starter to its own first name, "" when
\* it has none, whether or not one was recorded; no other row changes it.
C9_LastWins ==
    [][ ppc = "scan" =>
            /\ lwr' = IF ReadsCode(PosLWR) THEN FirstName(soup[tr']) ELSE lwr
            /\ rwr' = IF ReadsCode(PosRWR) THEN FirstName(soup[tr']) ELSE rwr
            /\ swr' = IF ReadsCode(PosSWR) THEN FirstName(soup[tr']) ELSE swr ]_vars

\* two LWR rows were read, and the starter is the second row's
C9_Witness ==
    /\ ppc = "scan" /\ tr = 3
    /\ Strip(soup[2].pos) = PosLWR /\ FirstName(soup[2]) = <<"A">>
    /\ Strip(soup[3].pos) = PosLWR /\ FirstName(soup[3]) = <<"B">>
    /\ soup[2].ncells >= 4 /\ soup[3].ncells >= 4
    /\ lwr = <<"B">>

====
